---- MODULE Spec2Model ----
(***************************************************************************)
(* Bus-mapping generation for the call-terminating RETURN / REVERT         *)
(* instruction (bus-mapping/src/evm/opcodes/return_revert.rs).             *)
(*                                                                         *)
(* The builder state (block-wide rw counter, operation container, copy     *)
(* events, per-call memory buffers, code store) is threaded through the    *)
(* handler.  The sections of the handler are operators, in the order of    *)
(* the source: Begin (lines 19-45), CaseA (47-87), CaseB, CaseC (89-102),  *)
(* CaseD (104-139); HandlerBody runs them, HandlerReturn is the call of    *)
(* finalize-return (141-142).  The surrounding trace (a transaction whose  *)
(* root call may enter one nested call) is the environment.                *)
(*                                                                         *)
(* Representation.  A 256-bit word is the pair <<hi, lo>>: lo is the low   *)
(* 64 bits, hi is nonzero iff some bit above bit 63 is set.  A hash is the *)
(* tuple <<2>> \o bytes (an uninterpreted injective function of the        *)
(* content).  Sequences are 1-based: byte address a is element a + 1.      *)
(***************************************************************************)
EXTENDS Integers, Sequences, FiniteSets, TLC

\* ------------------------------------------------------------------ bounds
\* Largest low part of a stack word; largest return-data length of a call.
MaxLen == 2
\* Largest length of a call's memory buffer before the instruction.
MaxMem == 2
\* A handler invocation starts only while the block's rw counter is at most this.
MaxRwc == 6

\* EIP-3541: deployed code must not start with this byte.
INVALID_INIT_CODE_FIRST_BYTE == 239

\* Byte values a memory buffer holds before the instruction (0x60 is PUSH1).
InitBytes == {96, INVALID_INIT_CODE_FIRST_BYTE}

RECURSIVE SeqsUpTo(_, _)
SeqsUpTo(S, n) ==
    IF n = 0 THEN {<<>>}
    ELSE LET shorter == SeqsUpTo(S, n - 1)
         IN  shorter \cup {Append(s, x) : s \in {t \in shorter : Len(t) = n - 1}, x \in S}

\* Memory buffers of a call at the time the instruction is reached.
MemInit == SeqsUpTo(InitBytes, MaxMem)

\* Stack words of the trace: small values, and values with bits above bit 63 set.
Words == {<<0, lo>> : lo \in 0..MaxLen} \cup {<<1, lo>> : lo \in 0..1}

\* Stacks of the trace step (the top is the last element): 0, 1 or 2 words.
Stacks == {<<>>} \cup {<<w>> : w \in Words} \cup {<<l, o>> : l \in Words, o \in Words}

VARIABLES
    pc,            \* position of the handler: idle, return (finalize pending), error, panic
    rwc,           \* state.block_ctx.rwc
    container,     \* state.block.container: the operations of the block, in order
    copy_events,   \* state.block.copy_events
    calls,         \* state.tx.calls: call id -> Call
    call_stack,    \* state.tx_ctx.calls: ids of the active calls, current call last
    memory,        \* memory buffers of the active calls' contexts (call i of the
                   \* block is at depth i, so its buffer is memory[i])
    code_db,       \* state.code_db: set of stored bytecodes (keyed by their hash)
    exec_step,     \* bus_mapping_instance of the ExecStep being built (indices into container)
    steps,         \* ExecSteps handed back to the driver
    offset,        \* local `offset` (usize) of gen_associated_ops
    length,        \* local `length` (usize) of gen_associated_ops
    entry          \* builder state and trace step at handler entry (history)

vars == <<pc, rwc, container, copy_events, calls, call_stack, memory, code_db,
          exec_step, steps, offset, length, entry>>

\* ------------------------------------------------------------ value helpers
Min(a, b) == IF a <= b THEN a ELSE b

\* U256::is_zero
is_zero(w) == w[1] = 0 /\ w[2] = 0

\* U256::low_u64
low_u64(w) == w[2]

\* U256::as_usize panics unless the value fits the native width
fits_usize(w) == w[1] = 0

\* ToWord for numbers and booleans
to_word(n) == <<0, n>>

bool_word(flag) == <<0, IF flag THEN 1 ELSE 0>>

\* Bytecode::hash_h256 / CodeDB::hash: an injective function of the content
hash_h256(bytes) == <<2>> \o bytes

\* CodeDB::empty_code_hash
empty_code_hash == hash_h256(<<>>)

\* NumberOrHash::Number and NumberOrHash::Hash
NumberId(n) == <<0, n>>

HashId(h) == <<1>> \o h

\* step.stack.nth_last(n): the n-th word from the top
nth_last(stack, n) == stack[Len(stack) - n]

\* step.stack.nth_last_filled(n): the stack address of that word
nth_last_filled(stack, n) == 1024 - Len(stack) + n

\* memory.0[from .. to] (0-based, end exclusive)
Slice(mem, from, to) == SubSeq(mem, from + 1, to)

\* Memory::extend_at_least: grow with zero bytes, never shrink
extend_at_least(mem, minimal_length) ==
    IF Len(mem) >= minimal_length THEN mem
    ELSE mem \o [i \in 1..(minimal_length - Len(mem)) |-> 0]

\* Bytecode::from(values).code_vec(): each byte with its is_code flag; the
\* bytes following a PUSHn opcode (0x60..0x7f) are data
RECURSIVE code_vec_from(_, _, _)
code_vec_from(values, i, push_left) ==
    IF i > Len(values) THEN <<>>
    ELSE IF push_left > 0
         THEN <<<<values[i], FALSE>>>> \o code_vec_from(values, i + 1, push_left - 1)
         ELSE <<<<values[i], TRUE>>>>
              \o code_vec_from(values, i + 1,
                               IF values[i] \in 96..127 THEN values[i] - 95 ELSE 0)

code_vec(values) == code_vec_from(values, 1, 0)

\* ------------------------------------------------------------- operations
StackOp(call_id, address, value) ==
    [target |-> "Stack", id |-> call_id, addr |-> address, field |-> "None",
     value |-> value, value_prev |-> <<>>, reversible |-> FALSE]

MemoryOp(call_id, address, byte) ==
    [target |-> "Memory", id |-> call_id, addr |-> address, field |-> "None",
     value |-> to_word(byte), value_prev |-> <<>>, reversible |-> FALSE]

CallContextOp(call_id, field, value) ==
    [target |-> "CallContext", id |-> call_id, addr |-> 0, field |-> field,
     value |-> value, value_prev |-> <<>>, reversible |-> FALSE]

AccountOp(address, field, value, value_prev) ==
    [target |-> "Account", id |-> 0, addr |-> address, field |-> field,
     value |-> value, value_prev |-> value_prev, reversible |-> FALSE]

\* The operation as stored in the container: with its rw counter and READ/WRITE tag
Stored(op, rw, counter) ==
    [rwc |-> counter, rw |-> rw, target |-> op.target, id |-> op.id, addr |-> op.addr,
     field |-> op.field, value |-> op.value, value_prev |-> op.value_prev,
     reversible |-> op.reversible]

\* ------------------------------------------------------ builder primitives
\* The builder state b is the record
\*   [rwc, container, copy_events, memory, code_db, bmi, fault]
\* bmi is the bus_mapping_instance of the step being built; fault is "none",
\* "error" (an Err is returned) or "panic" (unwrap / assertion / index panic).

\* Mutant of push_op: the counter is not advanced after a WRITE
push_op_write_keeps_counter(b, rw, op) ==
    [b EXCEPT !.container = Append(@, Stored(op, rw, b.rwc)),
              !.bmi = Append(@, Len(b.container) + 1),
              !.rwc = IF rw = "WRITE" THEN @ ELSE @ + 1]

\* CircuitInputStateRef::push_op: the operation takes the current rw counter,
\* which is then incremented; the step records a reference to it
push_op(b, rw, op) ==
    [b EXCEPT !.container = Append(@, Stored(op, rw, b.rwc)),
              !.bmi = Append(@, Len(b.container) + 1),
              !.rwc = @ + 1]

\* CircuitInputStateRef::push_op_reversible: a WRITE recorded with its previous value
push_op_reversible(b, op) ==
    push_op(b, "WRITE", [op EXCEPT !.reversible = TRUE])

stack_read(b, call_id, address, value) ==
    push_op(b, "READ", StackOp(call_id, address, value))

call_context_read(b, call_id, field, value) ==
    push_op(b, "READ", CallContextOp(call_id, field, value))

call_context_write(b, call_id, field, value) ==
    push_op(b, "WRITE", CallContextOp(call_id, field, value))

\* CircuitInputStateRef::memory_read: a READ of the current call's memory
memory_read(b, call_id, address, byte) ==
    push_op(b, "READ", MemoryOp(call_id, address, byte))

\* CircuitInputStateRef::push_copy
push_copy(b, event) == [b EXCEPT !.copy_events = Append(@, event)]

\* CircuitInputStateRef::handle_restore_context: the bundle that resumes the
\* caller (the field set is the collaborator's; here the callee's CallerId is
\* read and the caller's LastCalleeId is written)
handle_restore_context(b, call) ==
    LET b1 == call_context_read(b, call.call_id, "CallerId", to_word(call.caller_id))
    IN  call_context_write(b1, call.caller_id, "LastCalleeId", to_word(call.call_id))

\* CircuitInputStateRef::handle_return: commits the deployed code of a
\* successful creation into the code store (the call stack is popped by the
\* Return action)
handle_return(b, call, off, len) ==
    IF call.is_create /\ call.is_success /\ len > 0
    THEN [b EXCEPT !.code_db = @ \cup {Slice(b.memory[call.call_id], off, off + len)}]
    ELSE b

\* ---------------------------------------------------------------- recorders
Source(id, off, len) == [id |-> id, offset |-> off, length |-> len]

Destination(id, off, len) == [id |-> id, offset |-> off, length |-> len]

\* handle_copy, line 164
handle_copy_length(source, destination) == Min(source.length, destination.length)

\* Mutant of handle_copy_bytes: the snapshot takes source.length bytes
handle_copy_bytes_source_length(mem, source, destination) ==
    [i \in 1..source.length |-> <<mem[source.offset + i], FALSE>>]

\* handle_copy, lines 165-168: the snapshot, read from the current call's memory
handle_copy_bytes(mem, source, destination) ==
    [i \in 1..handle_copy_length(source, destination) |-> <<mem[source.offset + i], FALSE>>]

\* Mutant of handle_copy_loop: every WRITE is tagged with destination.offset
RECURSIVE handle_copy_loop_fixed_dst(_, _, _, _, _)
handle_copy_loop_fixed_dst(b, source, destination, bytes, i) ==
    IF i >= Len(bytes) THEN b
    ELSE LET byte == bytes[i + 1][1]
             b1 == push_op(b, "READ", MemoryOp(source.id, source.offset + i, byte))
             b2 == push_op(b1, "WRITE", MemoryOp(destination.id, destination.offset, byte))
         IN  handle_copy_loop_fixed_dst(b2, source, destination, bytes, i + 1)

\* handle_copy, lines 171-182: iterations i .. Len(bytes)-1 of the loop (i is 0-based)
RECURSIVE handle_copy_loop(_, _, _, _, _)
handle_copy_loop(b, source, destination, bytes, i) ==
    IF i >= Len(bytes) THEN b
    ELSE LET byte == bytes[i + 1][1]
             b1 == push_op(b, "READ", MemoryOp(source.id, source.offset + i, byte))
             b2 == push_op(b1, "WRITE", MemoryOp(destination.id, destination.offset + i, byte))
         IN  handle_copy_loop(b2, source, destination, bytes, i + 1)

\* handle_copy, lines 184-198
handle_copy_event(rw_counter_start, source, destination, bytes) ==
    [rw_counter_start |-> rw_counter_start,
     src_type |-> "Memory", src_id |-> NumberId(source.id),
     src_addr |-> source.offset, src_addr_end |-> source.offset + source.length,
     dst_type |-> "Memory", dst_id |-> NumberId(destination.id),
     dst_addr |-> destination.offset, log_id |-> "None", bytes |-> bytes]

\* handle_copy; cur is the id of the current call (state.call_ctx())
handle_copy(b, cur, source, destination) ==
    LET bytes == handle_copy_bytes(b.memory[cur], source, destination)
        rw_counter_start == b.rwc
        b1 == handle_copy_loop(b, source, destination, bytes, 0)
    IN  push_copy(b1, handle_copy_event(rw_counter_start, source, destination, bytes))

\* handle_create, line 208
handle_create_values(mem, source) == Slice(mem, source.offset, source.offset + source.length)

\* Mutant of handle_create_hash: the hash is taken over the first source.length
\* bytes of the memory instead of the bytes at source.offset
handle_create_hash_from_start(mem, source) == hash_h256(Slice(mem, 0, source.length))

\* handle_create, lines 209-210: the value the recorder returns
handle_create_hash(mem, source) == hash_h256(handle_create_values(mem, source))

\* Mutant of handle_create_loop: the last byte of the source is not read
RECURSIVE handle_create_loop_short(_, _, _, _)
handle_create_loop_short(b, source, bytes, i) ==
    IF i + 1 >= Len(bytes) THEN b
    ELSE LET b1 == push_op(b, "READ", MemoryOp(source.id, source.offset + i, bytes[i + 1][1]))
         IN  handle_create_loop_short(b1, source, bytes, i + 1)

\* handle_create, lines 214-220: iterations i .. Len(bytes)-1 of the loop
RECURSIVE handle_create_loop(_, _, _, _)
handle_create_loop(b, source, bytes, i) ==
    IF i >= Len(bytes) THEN b
    ELSE LET b1 == push_op(b, "READ", MemoryOp(source.id, source.offset + i, bytes[i + 1][1]))
         IN  handle_create_loop(b1, source, bytes, i + 1)

\* handle_create, lines 222-236
handle_create_event(rw_counter_start, source, code_hash, bytes) ==
    [rw_counter_start |-> rw_counter_start,
     src_type |-> "Memory", src_id |-> NumberId(source.id),
     src_addr |-> source.offset, src_addr_end |-> source.offset + source.length,
     dst_type |-> "Bytecode", dst_id |-> HashId(code_hash),
     dst_addr |-> 0, log_id |-> "None", bytes |-> bytes]

\* Mutant of handle_create: the recorder inserts the bytes into the code store
handle_create_storing(b, cur, source) ==
    LET values == handle_create_values(b.memory[cur], source)
        bytes == code_vec(values)
        code_hash == handle_create_hash(b.memory[cur], source)
        rw_counter_start == b.rwc
        b1 == handle_create_loop(b, source, bytes, 0)
        b2 == [b1 EXCEPT !.code_db = @ \cup {values}]
    IN  push_copy(b2, handle_create_event(rw_counter_start, source, code_hash, bytes))

\* Mutant of handle_create: the starting counter is that of the operation
\* recorded just before the recorder ran
handle_create_early_start(b, cur, source) ==
    LET bytes == code_vec(handle_create_values(b.memory[cur], source))
        code_hash == handle_create_hash(b.memory[cur], source)
        rw_counter_start == b.rwc - 1
        b1 == handle_create_loop(b, source, bytes, 0)
    IN  push_copy(b1, handle_create_event(rw_counter_start, source, code_hash, bytes))

\* handle_create; cur is the id of the current call (state.call_ctx())
handle_create(b, cur, source) ==
    LET bytes == code_vec(handle_create_values(b.memory[cur], source))
        code_hash == handle_create_hash(b.memory[cur], source)
        rw_counter_start == b.rwc
        b1 == handle_create_loop(b, source, bytes, 0)
    IN  push_copy(b1, handle_create_event(rw_counter_start, source, code_hash, bytes))

\* ------------------------------------------------ sections of the handler
Panic(b) == [b EXCEPT !.fault = "panic"]

Err(b) == [b EXCEPT !.fault = "error"]

\* Mutant of extend_target: one byte more than the operands ask for
extend_target_one_more(off, len) == low_u64(off) + low_u64(len) + 1

\* line 31: the length the current call's memory is extended to (a u64 sum;
\* the low parts drawn here are far from wrapping it)
extend_target(off, len) == low_u64(off) + low_u64(len)

\* Mutant of ExtendMemory: the memory is extended even when length is zero
ExtendMemory_unguarded(b, call, off, len) ==
    [b EXCEPT !.memory[call.call_id] = extend_at_least(@, extend_target(off, len))]

\* lines 27-32
ExtendMemory(b, call, off, len) ==
    IF ~is_zero(len)
    THEN [b EXCEPT !.memory[call.call_id] = extend_at_least(@, extend_target(off, len))]
    ELSE b

\* line 44 and line 45: the native-width locals
LocalOffset(stack) == low_u64(nth_last(stack, 0))

LocalLength(stack) == low_u64(nth_last(stack, 1))

\* Mutant of Begin: the offset is converted with as_usize like the length
Begin_offset_as_usize(b, call, stack) ==
    IF Len(stack) < 2 THEN Err(b)
    ELSE LET off == nth_last(stack, 0)
             len == nth_last(stack, 1)
             b1 == stack_read(b, call.call_id, nth_last_filled(stack, 0), off)
             b2 == stack_read(b1, call.call_id, nth_last_filled(stack, 1), len)
             b3 == ExtendMemory(b2, call, off, len)
             b4 == call_context_read(b3, call.call_id, "IsSuccess", bool_word(call.is_success))
         IN  IF fits_usize(off) /\ fits_usize(len) THEN b4 ELSE Panic(b4)

\* Mutant of Begin: the IsSuccess read is recorded before the stack reads
Begin_success_first(b, call, stack) ==
    IF Len(stack) < 2 THEN Err(b)
    ELSE LET off == nth_last(stack, 0)
             len == nth_last(stack, 1)
             b1 == call_context_read(b, call.call_id, "IsSuccess", bool_word(call.is_success))
             b2 == stack_read(b1, call.call_id, nth_last_filled(stack, 0), off)
             b3 == stack_read(b2, call.call_id, nth_last_filled(stack, 1), len)
             b4 == ExtendMemory(b3, call, off, len)
         IN  IF fits_usize(len) THEN b4 ELSE Panic(b4)

\* lines 19-45: new step, the two stack reads, memory extension, the IsSuccess
\* read, the conversions of offset and length
Begin(b, call, stack) ==
    IF Len(stack) < 2 THEN Err(b)
    ELSE LET off == nth_last(stack, 0)
             len == nth_last(stack, 1)
             b1 == stack_read(b, call.call_id, nth_last_filled(stack, 0), off)
             b2 == stack_read(b1, call.call_id, nth_last_filled(stack, 1), len)
             b3 == ExtendMemory(b2, call, off, len)
             b4 == call_context_read(b3, call.call_id, "IsSuccess", bool_word(call.is_success))
         IN  IF fits_usize(len) THEN b4 ELSE Panic(b4)

\* Mutant of IsCaseA: the outcome of the call is not looked at
IsCaseA_any_outcome(call, len) == call.is_create /\ len > 0

\* line 48
IsCaseA(call, len) == call.is_create /\ call.is_success /\ len > 0

\* Mutant of CaseAContextReads: CalleeAddress is read before CallerId
CaseAContextReads_callee_first(b, call) ==
    LET b1 == call_context_read(b, call.call_id, "CalleeAddress", to_word(call.address))
        b2 == call_context_read(b1, call.call_id, "CallerId", to_word(call.caller_id))
        b3 == call_context_read(b2, call.call_id, "RwCounterEndOfReversion",
                                to_word(call.rw_counter_end_of_reversion))
    IN  call_context_read(b3, call.call_id, "IsPersistent", bool_word(call.is_persistent))

\* lines 66-76
CaseAContextReads(b, call) ==
    LET b1 == call_context_read(b, call.call_id, "CallerId", to_word(call.caller_id))
        b2 == call_context_read(b1, call.call_id, "CalleeAddress", to_word(call.address))
        b3 == call_context_read(b2, call.call_id, "RwCounterEndOfReversion",
                                to_word(call.rw_counter_end_of_reversion))
    IN  call_context_read(b3, call.call_id, "IsPersistent", bool_word(call.is_persistent))

\* lines 78-86
CodeHashWrite(call, code_hash) ==
    AccountOp(call.address, "CodeHash", code_hash, empty_code_hash)

\* Mutant of CaseA: the first byte is read but not compared with 0xEF
CaseA_unchecked(b, call, off, len) ==
    IF IsCaseA(call, len)
    THEN LET init_code_first_byte == b.memory[call.call_id][off + 1]
             b1 == memory_read(b, call.call_id, off, init_code_first_byte)
             source == Source(call.call_id, off, len)
             code_hash == handle_create_hash(b1.memory[call.call_id], source)
             b2 == handle_create(b1, call.call_id, source)
             b3 == CaseAContextReads(b2, call)
         IN  push_op_reversible(b3, CodeHashWrite(call, code_hash))
    ELSE b

\* lines 47-87
CaseA(b, call, off, len) ==
    IF IsCaseA(call, len)
    THEN LET init_code_first_byte == b.memory[call.call_id][off + 1]
             b1 == memory_read(b, call.call_id, off, init_code_first_byte)
         IN  IF init_code_first_byte = INVALID_INIT_CODE_FIRST_BYTE THEN Panic(b1)
             ELSE LET source == Source(call.call_id, off, len)
                      code_hash == handle_create_hash(b1.memory[call.call_id], source)
                      b2 == handle_create(b1, call.call_id, source)
                      b3 == CaseAContextReads(b2, call)
                  IN  push_op_reversible(b3, CodeHashWrite(call, code_hash))
    ELSE b

\* lines 89-97
CaseB(b, call) ==
    IF call.is_root
    THEN call_context_read(b, call.call_id, "IsPersistent", bool_word(call.is_persistent))
    ELSE b

\* Mutant of CaseC: the caller's context is restored in a root call too
CaseC_unguarded(b, call) == handle_restore_context(b, call)

\* lines 99-102
CaseC(b, call) ==
    IF ~call.is_root THEN handle_restore_context(b, call) ELSE b

\* Mutant of IsCaseD: every non-root call runs Case D
IsCaseD_any_kind(call) == ~call.is_root

\* line 105
IsCaseD(call) == ~call.is_root /\ ~call.is_create

\* line 114
copy_length_of(return_data_length, len) == Min(return_data_length, len)

\* lines 106-111
CaseDContextReads(b, call) ==
    LET b1 == call_context_read(b, call.call_id, "ReturnDataOffset",
                                to_word(call.return_data_offset))
    IN  call_context_read(b1, call.call_id, "ReturnDataLength",
                          to_word(call.return_data_length))

\* Mutant of copy_from_slice: the caller's bytes after the copied range are cleared
copy_from_slice_clearing_tail(caller_memory, return_offset, callee_memory, off, copy_length) ==
    [i \in 1..Len(caller_memory) |->
        IF i > return_offset /\ i <= return_offset + copy_length
        THEN callee_memory[off + (i - return_offset)]
        ELSE IF i > return_offset + copy_length THEN 0 ELSE caller_memory[i]]

\* Mutant of copy_from_slice: the bytes are taken from the start of the callee's
\* memory instead of from `offset`
copy_from_slice_from_start(caller_memory, return_offset, callee_memory, off, copy_length) ==
    [i \in 1..Len(caller_memory) |->
        IF i > return_offset /\ i <= return_offset + copy_length
        THEN callee_memory[i - return_offset]
        ELSE caller_memory[i]]

\* lines 121-122: caller_ctx.memory.0[return_offset..return_offset + copy_length]
\*   .copy_from_slice(&callee_memory.0[offset..offset + copy_length])
copy_from_slice(caller_memory, return_offset, callee_memory, off, copy_length) ==
    [i \in 1..Len(caller_memory) |->
        IF i > return_offset /\ i <= return_offset + copy_length
        THEN callee_memory[off + (i - return_offset)]
        ELSE caller_memory[i]]

\* lines 104-139
CaseD(b, call, off, len) ==
    IF IsCaseD(call)
    THEN LET b1 == CaseDContextReads(b, call)
             return_data_length == call.return_data_length
             copy_length == copy_length_of(return_data_length, len)
         IN  IF copy_length > 0
             THEN LET callee_memory == b1.memory[call.call_id]
                      return_offset == call.return_data_offset
                  IN  IF \/ return_offset + copy_length > Len(b1.memory[call.caller_id])
                         \/ off + copy_length > Len(callee_memory)
                      THEN Panic(b1)
                      ELSE LET b2 == [b1 EXCEPT !.memory[call.caller_id] =
                                         copy_from_slice(@, return_offset, callee_memory,
                                                         off, copy_length)]
                           IN  handle_copy(b2, call.call_id,
                                           Source(call.call_id, off, len),
                                           Destination(call.caller_id, return_offset,
                                                       return_data_length))
             ELSE b1
    ELSE b

\* lines 19-139: the sections in sequence; `?`, unwrap and assert_ne! leave
\* the function at the first fault
Body(b, call, stack) ==
    LET b1 == Begin(b, call, stack)
    IN  IF b1.fault # "none" THEN b1
        ELSE LET off == LocalOffset(stack)
                 len == LocalLength(stack)
                 b2 == CaseA(b1, call, off, len)
             IN  IF b2.fault # "none" THEN b2
                 ELSE CaseD(CaseC(CaseB(b2, call), call), call, off, len)

\* ------------------------------------------------------------------- state
\* Call (circuit_input_builder): the fields the handler reads
NewCall(id, caller_id, is_create, is_success, is_persistent, rdo, rdl) ==
    [call_id |-> id, caller_id |-> caller_id, address |-> 160 + id,
     is_root |-> (caller_id = 0), is_create |-> is_create, is_success |-> is_success,
     is_persistent |-> is_persistent, rw_counter_end_of_reversion |-> 0,
     return_data_offset |-> rdo, return_data_length |-> rdl]

\* state.call(): the current call
Cur == calls[call_stack[Len(call_stack)]]

\* The builder state as a record
B ==
    [rwc |-> rwc, container |-> container, copy_events |-> copy_events,
     memory |-> memory, code_db |-> code_db, bmi |-> exec_step, fault |-> "none"]

\* The builder state b becomes the state; a fault ends the handler
Install(b, next_pc) ==
    /\ rwc' = b.rwc
    /\ container' = b.container
    /\ copy_events' = b.copy_events
    /\ memory' = b.memory
    /\ code_db' = b.code_db
    /\ exec_step' = b.bmi
    /\ pc' = IF b.fault = "none" THEN next_pc ELSE b.fault

NoEntry ==
    [rwc |-> 1, nops |-> 0, ncopies |-> 0, memory |-> <<>>, code_db |-> {<<>>},
     stack |-> <<>>, call_id |-> 0]

Init ==
    /\ pc = "idle"
    /\ rwc = 1
    /\ container = <<>>
    /\ copy_events = <<>>
    /\ calls = <<>>
    /\ call_stack = <<>>
    /\ memory = <<>>
    /\ code_db = {<<>>}
    /\ exec_step = <<>>
    /\ steps = <<>>
    /\ offset = 0
    /\ length = 0
    /\ entry = NoEntry

\* ------------------------------------------------------------- environment
\* A transaction begins: its root call, with the memory it has built when it
\* reaches its RETURN / REVERT
BeginTx ==
    /\ pc = "idle"
    /\ calls = <<>>
    /\ \E is_create \in BOOLEAN, is_success \in BOOLEAN, mem \in MemInit :
         LET id == Len(calls) + 1
         IN  /\ calls' = Append(calls, NewCall(id, 0, is_create, is_success, is_success, 0, 0))
             /\ call_stack' = <<id>>
             /\ memory' = Append(memory, mem)
    /\ UNCHANGED <<pc, rwc, container, copy_events, code_db, exec_step, steps,
                   offset, length, entry>>

\* The root call enters a nested call (CALL or CREATE); a message call names
\* the region of the caller's memory that receives the return data
EnterCall ==
    /\ pc = "idle"
    /\ call_stack # <<>>
    /\ Len(calls) = 1
    /\ \E is_create \in BOOLEAN, is_success \in BOOLEAN, mem \in MemInit,
          rdo \in 0..1, rdl \in 0..MaxLen :
         LET id == Len(calls) + 1
             caller == Cur
         IN  /\ is_create => (rdo = 0 /\ rdl = 0)
             /\ calls' = Append(calls, NewCall(id, caller.call_id, is_create, is_success,
                                               is_success /\ caller.is_persistent, rdo, rdl))
             /\ call_stack' = Append(call_stack, id)
             /\ memory' = Append(memory, mem)
    /\ UNCHANGED <<pc, rwc, container, copy_events, code_db, exec_step, steps,
                   offset, length, entry>>

\* ----------------------------------------------------------------- handler
\* gen_associated_ops, lines 19-139, on the trace step whose stack is `stack`:
\* the sections in the order of the source; a fault (an Err returned by `?`,
\* or a panic) ends the handler where it occurs
HandlerBody ==
    /\ pc = "idle"
    /\ call_stack # <<>>
    /\ rwc <= MaxRwc
    /\ \E stack \in Stacks :
         /\ Install(Body(B, Cur, stack), "return")
         /\ offset' = IF Len(stack) >= 2 THEN LocalOffset(stack) ELSE 0
         /\ length' = IF Len(stack) >= 2 /\ fits_usize(nth_last(stack, 1))
                      THEN LocalLength(stack) ELSE 0
         /\ entry' = [rwc |-> rwc, nops |-> Len(container), ncopies |-> Len(copy_events),
                      memory |-> memory, code_db |-> code_db, stack |-> stack,
                      call_id |-> Cur.call_id]
    /\ UNCHANGED <<calls, call_stack, steps>>

\* lines 141-142: finalize, hand the step back; the call's context is popped
\* and its memory buffer goes with it
HandlerReturn ==
    /\ pc = "return"
    /\ LET b == handle_return(B, Cur, offset, length)
       IN  /\ Install([b EXCEPT !.bmi = <<>>,
                                !.memory = SubSeq(@, 1, Len(call_stack) - 1)], "idle")
           /\ steps' = Append(steps, b.bmi)
    /\ call_stack' = SubSeq(call_stack, 1, Len(call_stack) - 1)
    /\ UNCHANGED <<calls, offset, length, entry>>

Next ==
    \/ BeginTx
    \/ EnterCall
    \/ HandlerBody
    \/ HandlerReturn

Spec == Init /\ [][Next]_vars

\* ------------------------------------------------------- reading the state
\* The operations and copy events of the invocation in progress, or of the
\* one that has just finished
CurOps == SubSeq(container, entry.nops + 1, Len(container))

CurCopies == SubSeq(copy_events, entry.ncopies + 1, Len(copy_events))

\* An invocation has started and found its two operands
Started == entry.call_id # 0 /\ Len(entry.stack) = 2

EntryCall == calls[entry.call_id]

OffsetWord == entry.stack[2]

LengthWord == entry.stack[1]

\* The invocation has run all its sections (finalize-return is pending or done)
Completed == Started /\ pc \in {"return", "idle"}

\* The byte of a buffer at an address, zero beyond its end (memory as the
\* machine reads it)
ByteAt(mem, address) == IF address < Len(mem) THEN mem[address + 1] ELSE 0

\* The callee's bytes [from, from + n) as they were when the instruction was reached
EntryBytes(from, n) == [i \in 1..n |-> ByteAt(entry.memory[entry.call_id], from + i - 1)]

IsMemory(op) == op.target = "Memory"

IsMemRead(op) == op.target = "Memory" /\ op.rw = "READ"

IsMemWrite(op) == op.target = "Memory" /\ op.rw = "WRITE"

IsCodeHashWrite(op) == op.target = "Account" /\ op.field = "CodeHash" /\ op.rw = "WRITE"

IsRestore(op) == op.target = "CallContext" /\ op.field = "LastCalleeId" /\ op.rw = "WRITE"

IsRead(op, field) == op.target = "CallContext" /\ op.field = field /\ op.rw = "READ"

NumMemory(ops) == Len(SelectSeq(ops, IsMemory))

NumMemRead(ops) == Len(SelectSeq(ops, IsMemRead))

NumMemWrite(ops) == Len(SelectSeq(ops, IsMemWrite))

NumCodeHashWrite(ops) == Len(SelectSeq(ops, IsCodeHashWrite))

NumAccount(ops) == Len(SelectSeq(ops, LAMBDA op : op.target = "Account"))

NumRestore(ops) == Len(SelectSeq(ops, IsRestore))

NumRead(ops, field) == Len(SelectSeq(ops, LAMBDA op : IsRead(op, field)))

\* --------------------------------------------------------------------- C1
\* C1: when a non-root, non-creation invocation has finished, with
\* copy_length = min(call.return_data_length, length): exactly copy_length
\* memory READs and copy_length memory WRITEs were emitted, alternating READ,
\* WRITE; and the caller's memory at [return_offset, return_offset + copy_length)
\* equals the callee's memory at [offset, offset + copy_length) as it was when
\* the instruction was reached.
C1_CopyLength ==
    IF EntryCall.return_data_length <= low_u64(LengthWord)
    THEN EntryCall.return_data_length ELSE low_u64(LengthWord)

C1_CaseDCopies ==
    (Completed /\ ~EntryCall.is_root /\ ~EntryCall.is_create) =>
        LET call == EntryCall
            n == C1_CopyLength
            mem_ops == SelectSeq(CurOps, IsMemory)
        IN  /\ NumMemRead(CurOps) = n
            /\ NumMemWrite(CurOps) = n
            /\ \A i \in 1..n : mem_ops[2 * i - 1].rw = "READ" /\ mem_ops[2 * i].rw = "WRITE"
            /\ \A i \in 1..n :
                 memory[call.caller_id][call.return_data_offset + i]
                   = EntryBytes(low_u64(OffsetWord), n)[i]

C1_Witness ==
    /\ Completed /\ ~EntryCall.is_root /\ ~EntryCall.is_create
    /\ C1_CopyLength = 2
    /\ low_u64(OffsetWord) = 1
    /\ EntryBytes(1, 2) = <<INVALID_INIT_CODE_FIRST_BYTE, 0>>
    /\ entry.memory[EntryCall.caller_id] = <<96, 96>>

\* --------------------------------------------------------------------- C2
\* C2: the rw counter of every operation of the block is one more than that of
\* the operation before it, the block's counter is one more than the last
\* operation's, and every operation of a step handed back earlier has a smaller
\* counter than every operation of a later step or of the step in progress.
C2_CounterConsecutive ==
    /\ \A i \in 1..(Len(container) - 1) : container[i + 1].rwc = container[i].rwc + 1
    /\ container # <<>> => rwc = container[Len(container)].rwc + 1
    /\ \A j \in 1..Len(steps) : \A a \in 1..Len(steps[j]) :
         /\ \A k \in (j + 1)..Len(steps) : \A c \in 1..Len(steps[k]) :
              container[steps[j][a]].rwc < container[steps[k][c]].rwc
         /\ \A c \in 1..Len(exec_step) :
              container[steps[j][a]].rwc < container[exec_step[c]].rwc

C2_Witness ==
    /\ Len(steps) = 2
    /\ Len(steps[1]) >= 5
    /\ Len(steps[2]) >= 4
    /\ Len(container) = Len(steps[1]) + Len(steps[2])

\* --------------------------------------------------------------------- C3
\* C3: in an invocation whose length operand is zero, whatever the call kind:
\* no memory READ, no CopyEvent and no account code-hash write is emitted, and
\* every call's memory buffer is as it was when the instruction was reached
\* (until finalize-return drops the buffer of the call that ended).
C3_ZeroLength ==
    (Started /\ is_zero(LengthWord)) =>
        /\ NumMemRead(CurOps) = 0
        /\ CurCopies = <<>>
        /\ NumCodeHashWrite(CurOps) = 0
        /\ pc # "idle" => memory = entry.memory
        /\ pc = "idle" => memory = SubSeq(entry.memory, 1, Len(entry.memory) - 1)

C3_Witness ==
    /\ Completed /\ is_zero(LengthWord)
    /\ low_u64(OffsetWord) > Len(entry.memory[entry.call_id])
    /\ EntryCall.is_create /\ EntryCall.is_success /\ ~EntryCall.is_root

\* --------------------------------------------------------------------- C4
\* C4: when a successful root creation invocation with length > 0 has finished,
\* it has recorded exactly one account write; that write is a reversible
\* CodeHash write on the callee address whose value is the hash of the callee's
\* memory bytes [offset, offset + length) as they were when the instruction was
\* reached, and whose previous value is the empty-code hash.
C4_RootCreateCodeHash ==
    (/\ Completed
     /\ EntryCall.is_root /\ EntryCall.is_create /\ EntryCall.is_success
     /\ ~is_zero(LengthWord)) =>
        LET writes == SelectSeq(CurOps, LAMBDA op : op.target = "Account")
        IN  /\ Len(writes) = 1
            /\ IsCodeHashWrite(writes[1])
            /\ writes[1].reversible
            /\ writes[1].addr = EntryCall.address
            /\ writes[1].value
                 = hash_h256(EntryBytes(low_u64(OffsetWord), low_u64(LengthWord)))
            /\ writes[1].value_prev = hash_h256(<<>>)

C4_Witness ==
    /\ Completed
    /\ EntryCall.is_root /\ EntryCall.is_create /\ EntryCall.is_success
    /\ low_u64(LengthWord) = 2 /\ low_u64(OffsetWord) = 1
    /\ entry.memory[entry.call_id] = <<INVALID_INIT_CODE_FIRST_BYTE, 96>>

\* --------------------------------------------------------------------- C5
\* C5: at most one restore-context bundle is emitted in an invocation and none
\* in a root invocation; once the invocation is past Case B / Case C, a
\* non-root invocation has emitted exactly one bundle and no Case B read, and a
\* root invocation has emitted the Case B IsPersistent read and no bundle (the
\* only other IsPersistent read is Case A's).
C5_CaseAReads == IF NumRead(CurOps, "CalleeAddress") > 0 THEN 1 ELSE 0

C5_RestoreOnce ==
    Started =>
        LET restores == NumRestore(CurOps)
            persist_reads == NumRead(CurOps, "IsPersistent")
        IN  /\ restores <= 1
            /\ EntryCall.is_root => restores = 0
            /\ pc \in {"return", "idle"} =>
                 /\ restores = (IF EntryCall.is_root THEN 0 ELSE 1)
                 /\ persist_reads - C5_CaseAReads = (IF EntryCall.is_root THEN 1 ELSE 0)

C5_Witness ==
    /\ Completed /\ EntryCall.is_root /\ ~EntryCall.is_success
    /\ Len(steps) = 2
    /\ NumRestore(SubSeq(container, 1, entry.nops)) = 1

\* --------------------------------------------------------------------- C6
\* C6: the operations of an invocation appear in the processing order: the
\* stack read of offset, the stack read of length and the IsSuccess read are
\* the first three; every Case A operation precedes the Case B read and the
\* restore-context bundle; Case D's ReturnDataOffset / ReturnDataLength reads
\* and copy pairs follow the bundle; and the step is handed back by
\* finalize-return after all of them, holding exactly these operations.
C6_IsCaseAOp(op) ==
    \/ op.target = "Account"
    \/ IsRead(op, "CalleeAddress")
    \/ IsRead(op, "RwCounterEndOfReversion")
    \/ (EntryCall.is_create /\ IsMemory(op))

C6_IsCaseDOp(op) ==
    \/ IsRead(op, "ReturnDataOffset")
    \/ IsRead(op, "ReturnDataLength")
    \/ (~EntryCall.is_create /\ IsMemory(op))

C6_Order ==
    Started =>
        LET ops == CurOps
            idx == 1..Len(ops)
            past_bc == pc \in {"return", "idle"}
            case_b == IF past_bc /\ EntryCall.is_root
                      THEN {i \in idx : /\ IsRead(ops[i], "IsPersistent")
                                        /\ \A j \in idx : IsRead(ops[j], "IsPersistent") => j <= i}
                      ELSE {}
            case_c == {i \in idx : IsRestore(ops[i])}
        IN  /\ Len(ops) >= 3
            /\ ops[1].target = "Stack" /\ ops[1].rw = "READ" /\ ops[1].value = OffsetWord
            /\ ops[1].addr = 1022 /\ ops[1].id = entry.call_id
            /\ ops[2].target = "Stack" /\ ops[2].rw = "READ" /\ ops[2].value = LengthWord
            /\ ops[2].addr = 1023 /\ ops[2].id = entry.call_id
            /\ IsRead(ops[3], "IsSuccess") /\ ops[3].id = entry.call_id
            /\ ops[3].value = <<0, IF EntryCall.is_success THEN 1 ELSE 0>>
            /\ \A i \in idx : ops[i].rwc = entry.rwc + i - 1
            /\ past_bc => Cardinality(case_b \cup case_c) = 1
            /\ \A a \in idx : \A m \in case_b \cup case_c : C6_IsCaseAOp(ops[a]) => a < m
            /\ \A d \in idx : C6_IsCaseDOp(ops[d]) =>
                 /\ case_c # {}
                 /\ \A m \in case_c : m < d
            /\ pc \in {"return", "panic"} =>
                 /\ call_stack # <<>>
                 /\ call_stack[Len(call_stack)] = entry.call_id
                 /\ exec_step = [i \in idx |-> entry.nops + i]
            /\ pc = "idle" =>
                 /\ steps # <<>>
                 /\ steps[Len(steps)] = [i \in idx |-> entry.nops + i]
                 /\ \A c \in 1..Len(call_stack) : call_stack[c] # entry.call_id

\* Case A, then the bundle, then finalize-return, in a nested creation
C6_Witness ==
    /\ Started /\ pc = "idle"
    /\ ~EntryCall.is_root /\ EntryCall.is_create
    /\ NumAccount(CurOps) = 1
    /\ NumRestore(CurOps) = 1

\* The bundle, then a two-byte copy of Case D, then finalize-return
C6_WitnessCaseD ==
    /\ Started /\ pc = "idle"
    /\ ~EntryCall.is_root /\ ~EntryCall.is_create
    /\ NumMemory(CurOps) = 4

\* --------------------------------------------------------------------- C7
\* C7: when a non-root, non-creation invocation has finished, with
\* n = min(length, return_data_length): the last 2n operations are, for
\* i = 0 .. n-1 in this order, a memory READ tagged (callee id, offset + i)
\* immediately followed by a memory WRITE tagged (caller id, return_offset + i),
\* both carrying the byte of the callee's memory at offset + i; they directly
\* follow the ReturnDataLength read and are the only memory operations.
C7_CopyPairs ==
    (Completed /\ ~EntryCall.is_root /\ ~EntryCall.is_create) =>
        LET call == EntryCall
            n == C1_CopyLength
            off == low_u64(OffsetWord)
            ops == CurOps
            base == Len(ops) - 2 * n
        IN  /\ base >= 1
            /\ IsRead(ops[base], "ReturnDataLength")
            /\ NumMemory(ops) = 2 * n
            /\ \A i \in 0..(n - 1) :
                 LET rd == ops[base + 2 * i + 1]
                     wr == ops[base + 2 * i + 2]
                 IN  /\ IsMemRead(rd) /\ rd.id = call.call_id /\ rd.addr = off + i
                     /\ IsMemWrite(wr) /\ wr.id = call.caller_id
                     /\ wr.addr = call.return_data_offset + i
                     /\ rd.value = <<0, EntryBytes(off, n)[i + 1]>>
                     /\ pc = "return" => rd.value = <<0, memory[call.call_id][off + i + 1]>>
                     /\ wr.value = rd.value
                     /\ wr.rwc = rd.rwc + 1

C7_Witness ==
    /\ Completed /\ pc = "return" /\ ~EntryCall.is_root /\ ~EntryCall.is_create
    /\ C1_CopyLength = 2
    /\ low_u64(LengthWord) = 2
    /\ EntryCall.return_data_length = 2
    /\ low_u64(OffsetWord) = 1
    /\ memory[entry.call_id] = <<96, INVALID_INIT_CODE_FIRST_BYTE, 0>>

\* --------------------------------------------------------------------- C8
\* C8: once Case A of a successful creation invocation with length > 0 is
\* done, the Creation Recorder has emitted exactly `length` memory READs, the
\* i-th tagged (callee id, offset + i) and carrying that byte, directly after
\* the EIP-3541 check read, and no memory WRITE; it has appended exactly one
\* CopyEvent, of kind memory-to-bytecode, whose source is [offset, offset +
\* length) of the callee, whose destination identity is the hash of exactly
\* those bytes and whose destination address is 0; and the hash it returned,
\* carried by the code-hash write, is that same hash.
C8_CaseADone ==
    /\ Started /\ pc \in {"return", "idle"}
    /\ EntryCall.is_create /\ EntryCall.is_success /\ ~is_zero(LengthWord)

C8_CreationRecorder ==
    C8_CaseADone =>
        LET off == low_u64(OffsetWord)
            len == low_u64(LengthWord)
            data == EntryBytes(off, len)
            ops == CurOps
            writes == SelectSeq(ops, LAMBDA op : op.target = "Account")
        IN  /\ NumMemRead(ops) = len + 1
            /\ NumMemWrite(ops) = 0
            /\ \A i \in 1..len :
                 /\ IsMemRead(ops[4 + i])
                 /\ ops[4 + i].id = entry.call_id
                 /\ ops[4 + i].addr = off + i - 1
                 /\ ops[4 + i].value = <<0, data[i]>>
            /\ Len(CurCopies) = 1
            /\ CurCopies[1].src_type = "Memory" /\ CurCopies[1].dst_type = "Bytecode"
            /\ CurCopies[1].src_id = <<0, entry.call_id>>
            /\ CurCopies[1].src_addr = off /\ CurCopies[1].src_addr_end = off + len
            /\ CurCopies[1].dst_id = <<1>> \o hash_h256(data)
            /\ CurCopies[1].dst_addr = 0
            /\ [i \in 1..Len(CurCopies[1].bytes) |-> CurCopies[1].bytes[i][1]] = data
            /\ Len(writes) = 1
            /\ writes[1].value = hash_h256(data)

C8_Witness ==
    /\ C8_CaseADone /\ pc = "idle"
    /\ low_u64(LengthWord) = 2 /\ low_u64(OffsetWord) = 1
    /\ ~fits_usize(OffsetWord)
    /\ entry.memory[entry.call_id] = <<INVALID_INIT_CODE_FIRST_BYTE, 96>>

\* --------------------------------------------------------------------- C9
\* C9: every CopyEvent of an invocation has a snapshot as long as the shorter
\* of its source and its destination: the memory-to-memory event has
\* min(length, call.return_data_length) bytes while its source range is
\* [offset, offset + length), and the memory-to-bytecode event has length bytes.
C9_SnapshotLength ==
    Started =>
        \A k \in 1..Len(CurCopies) :
            LET e == CurCopies[k]
                len == low_u64(LengthWord)
            IN  /\ e.src_addr = low_u64(OffsetWord)
                /\ e.src_addr_end = low_u64(OffsetWord) + len
                /\ e.dst_type \in {"Memory", "Bytecode"}
                /\ e.dst_type = "Memory" => Len(e.bytes) = C1_CopyLength
                /\ e.dst_type = "Bytecode" => Len(e.bytes) = len

\* A memory-to-memory event whose source is longer than its destination
C9_Witness ==
    /\ Completed /\ Len(CurCopies) = 1
    /\ CurCopies[1].dst_type = "Memory"
    /\ Len(CurCopies[1].bytes) = 1
    /\ CurCopies[1].src_addr_end - CurCopies[1].src_addr = 2

C9_WitnessBytecode ==
    /\ Completed /\ Len(CurCopies) = 1
    /\ CurCopies[1].dst_type = "Bytecode"
    /\ Len(CurCopies[1].bytes) = 2

\* -------------------------------------------------------------------- C10
\* C10: the starting counter of every CopyEvent of an invocation is the counter
\* of the first operation its recorder emitted: for the memory-to-memory event
\* the first memory READ of the invocation, for the memory-to-bytecode event
\* the second memory READ (the first is the EIP-3541 check read of the byte at
\* offset, recorded before the recorder ran).
C10_StartCounter ==
    Started =>
        \A k \in 1..Len(CurCopies) :
            LET e == CurCopies[k]
                reads == SelectSeq(CurOps, IsMemRead)
            IN  /\ e.dst_type = "Memory" =>
                     /\ Len(reads) >= 1
                     /\ e.rw_counter_start = reads[1].rwc
                     /\ reads[1].addr = e.src_addr
                /\ e.dst_type = "Bytecode" =>
                     /\ Len(reads) >= 2
                     /\ e.rw_counter_start = reads[2].rwc
                     /\ e.rw_counter_start = reads[1].rwc + 1
                     /\ reads[1].addr = e.src_addr /\ reads[2].addr = e.src_addr

\* A memory-to-bytecode event of the second invocation of a block
C10_Witness ==
    /\ Completed /\ Len(CurCopies) = 1 /\ entry.nops > 0
    /\ CurCopies[1].dst_type = "Bytecode" /\ Len(CurCopies[1].bytes) = 2

C10_WitnessMemory ==
    /\ Completed /\ Len(CurCopies) = 1
    /\ CurCopies[1].dst_type = "Memory" /\ Len(CurCopies[1].bytes) = 2


\* -------------------------------------------------------------------- C11
\* C11: when the length word is not zero, after the memory extension the
\* current call's buffer covers at least offset + length bytes (the sum of
\* line 31, taken over the low 64 bits of the two words); the buffer is never
\* shorter than it was at entry, every byte it held at entry is unchanged and
\* every added byte is zero; a buffer that already covered offset + length
\* bytes is left as it was.
C11_Target == low_u64(OffsetWord) + low_u64(LengthWord)

C11_Extension ==
    (Started /\ pc \in {"return", "panic"}) =>
        LET before == entry.memory[entry.call_id]
            after == memory[entry.call_id]
        IN  /\ Len(after) >= Len(before)
            /\ \A i \in 1..Len(before) : after[i] = before[i]
            /\ \A i \in (Len(before) + 1)..Len(after) : after[i] = 0
            /\ ~is_zero(LengthWord) => Len(after) >= C11_Target
            /\ (~is_zero(LengthWord) /\ Len(before) >= C11_Target) => after = before

\* A buffer of one byte grown to two bytes
C11_Witness ==
    /\ Started /\ pc = "return"
    /\ ~is_zero(LengthWord)
    /\ Len(entry.memory[entry.call_id]) = 1
    /\ C11_Target = 2
    /\ memory[entry.call_id] = Append(entry.memory[entry.call_id], 0)

\* A buffer that already covers the region, with a nonzero length
C11_WitnessCovered ==
    /\ Started /\ pc = "return"
    /\ ~is_zero(LengthWord)
    /\ Len(entry.memory[entry.call_id]) = C11_Target
    /\ C11_Target = 2

\* -------------------------------------------------------------------- C12
\* C12: an invocation for a creation call that ends unsuccessfully
\* (is_success false), whatever its length, emits no account operation (so no
\* code-hash write) and no memory-to-bytecode CopyEvent, and its IsSuccess
\* read, the third operation, carries the value false.
C12_IsBytecodeCopy(event) == event.dst_type = "Bytecode"

C12_FailedCreation ==
    (Started /\ EntryCall.is_create /\ ~EntryCall.is_success) =>
        /\ NumCodeHashWrite(CurOps) = 0
        /\ NumAccount(CurOps) = 0
        /\ Len(SelectSeq(CurCopies, C12_IsBytecodeCopy)) = 0
        /\ Len(CurOps) >= 3
        /\ IsRead(CurOps[3], "IsSuccess")
        /\ CurOps[3].id = entry.call_id
        /\ CurOps[3].value = bool_word(FALSE)

\* A nested creation that reverts with MaxLen bytes of data
C12_Witness ==
    /\ Completed /\ pc = "return"
    /\ EntryCall.is_create /\ ~EntryCall.is_success /\ ~EntryCall.is_root
    /\ LengthWord = <<0, MaxLen>>
    /\ Len(CurOps) >= 3 /\ CurOps[3].value = bool_word(FALSE)

\* -------------------------------------------------------------------- C13
\* C13: on a malformed trace step (fewer than two stack words, or a length
\* word that does not fit the native width) the handler returns an error to
\* the driver, hands back no step and has emitted no operation.
C13_Malformed ==
    entry.call_id # 0 /\ (Len(entry.stack) < 2 \/ ~fits_usize(entry.stack[1]))

C13_PropagatedError ==
    C13_Malformed =>
        /\ pc = "error"
        /\ Len(CurOps) = 0
        /\ rwc = entry.rwc
        /\ exec_step = <<>>

\* The part of C13 that the code keeps: a stack of fewer than two words makes
\* nth_last return Err (lines 22-23) before anything is recorded.
C13_StackUnderflow ==
    (entry.call_id # 0 /\ Len(entry.stack) < 2) =>
        /\ pc = "error"
        /\ Len(CurOps) = 0
        /\ rwc = entry.rwc
        /\ memory = entry.memory

\* A length word with bits above bit 63 set: as_usize (line 45) panics after
\* the two stack reads and the IsSuccess read were recorded
C13_Witness ==
    /\ Started /\ ~fits_usize(LengthWord)
    /\ pc = "panic"
    /\ Len(CurOps) = 3
    /\ rwc = entry.rwc + 3

\* -------------------------------------------------------------------- C14
\* C14: in Case A (successful creation call, length > 0), when the byte of the
\* callee's memory at offset is 0xEF the invocation ends in the fault of the
\* assertion (line 52), which is not the propagated error: no step is handed
\* back, no memory-to-bytecode CopyEvent and no account write is recorded, and
\* finalize-return has not run (the call is still the current call and the
\* code store is as at entry).
C14_BannedFirstByte ==
    /\ Started /\ fits_usize(LengthWord)
    /\ IsCaseA(EntryCall, low_u64(LengthWord))
    /\ ByteAt(entry.memory[entry.call_id], low_u64(OffsetWord)) = INVALID_INIT_CODE_FIRST_BYTE

C14_InvariantFault ==
    C14_BannedFirstByte =>
        /\ pc = "panic"
        /\ pc # "error"
        /\ \A i \in 1..Len(steps) : \A j \in 1..Len(steps[i]) : steps[i][j] <= entry.nops
        /\ Len(SelectSeq(CurCopies, C12_IsBytecodeCopy)) = 0
        /\ NumAccount(CurOps) = 0
        /\ call_stack[Len(call_stack)] = entry.call_id
        /\ code_db = entry.code_db

\* A successful creation returning two bytes that start with 0xEF: the check
\* read is the last operation recorded
C14_Witness ==
    /\ C14_BannedFirstByte
    /\ pc = "panic"
    /\ low_u64(LengthWord) = 2
    /\ Len(CurOps) = 4 /\ IsMemRead(CurOps[4])
    /\ CurOps[4].value = to_word(INVALID_INIT_CODE_FIRST_BYTE)

\* -------------------------------------------------------------------- C15
\* C15: from the entry of the handler until finalize-return is called the code
\* store is what it was at entry, whatever sections and recorders have run and
\* however the invocation ended (finalize pending, error, panic); this
\* includes Case A having computed the hash of the deployed code.
C15_CodeStoreUntouched ==
    (entry.call_id # 0 /\ pc \in {"return", "error", "panic"}) =>
        code_db = entry.code_db

\* Case A has run (its CopyEvent names the hash of the deployed bytes, the
\* code-hash write is recorded) and the bytes are not in the code store
C15_Witness ==
    /\ Completed /\ pc = "return"
    /\ IsCaseA(EntryCall, low_u64(LengthWord))
    /\ Len(CurCopies) = 1
    /\ CurCopies[1].dst_id = HashId(hash_h256(EntryBytes(low_u64(OffsetWord), low_u64(LengthWord))))
    /\ NumCodeHashWrite(CurOps) = 1
    /\ EntryBytes(low_u64(OffsetWord), low_u64(LengthWord)) \notin code_db
    /\ code_db = entry.code_db

\* finalize-return has run after Case A: the deployed bytes are in the code store
C15_WitnessFinalized ==
    /\ Completed /\ pc = "idle"
    /\ IsCaseA(EntryCall, low_u64(LengthWord))
    /\ EntryBytes(low_u64(OffsetWord), low_u64(LengthWord)) \in code_db
    /\ code_db # entry.code_db

\* -------------------------------------------------------------------- C16
\* C16: an invocation for a creation call (root or nested, successful or not)
\* records no ReturnDataOffset and no ReturnDataLength read, no
\* memory-to-memory CopyEvent and no memory WRITE, and leaves the caller's
\* memory buffer as it was at entry.
C16_IsMemoryCopy(event) == event.dst_type = "Memory"

C16_CreationSkipsCaseD ==
    (entry.call_id # 0 /\ EntryCall.is_create) =>
        /\ NumRead(CurOps, "ReturnDataOffset") = 0
        /\ NumRead(CurOps, "ReturnDataLength") = 0
        /\ Len(SelectSeq(CurCopies, C16_IsMemoryCopy)) = 0
        /\ NumMemWrite(CurOps) = 0
        /\ ~EntryCall.is_root =>
             memory[EntryCall.caller_id] = entry.memory[EntryCall.caller_id]

\* A nested successful creation returning MaxLen bytes into a caller that
\* holds memory of its own: the restore bundle is its last operation
C16_Witness ==
    /\ Completed /\ pc = "return"
    /\ EntryCall.is_create /\ EntryCall.is_success /\ ~EntryCall.is_root
    /\ LengthWord = <<0, MaxLen>>
    /\ Len(entry.memory[EntryCall.caller_id]) = MaxMem
    /\ IsRestore(CurOps[Len(CurOps)])

\* A nested creation that fails with a nonzero length
C16_WitnessFailed ==
    /\ Completed /\ pc = "return"
    /\ EntryCall.is_create /\ ~EntryCall.is_success /\ ~EntryCall.is_root
    /\ LengthWord = <<0, 1>>
    /\ IsRestore(CurOps[Len(CurOps)])

\* -------------------------------------------------------------------- C17
\* C17: in Case A (successful creation call, length > 0) the operation after
\* the IsSuccess read is the memory READ of the byte at offset (the EIP-3541
\* check); in an invocation that gets past the check it is followed by the
\* recorder's `length` memory READs at offset .. offset + length - 1 (the byte
\* at offset is read twice, length + 1 memory READs in all), then by the
\* call-context reads of CallerId, CalleeAddress, RwCounterEndOfReversion and
\* IsPersistent in that order, then by the reversible CodeHash account write,
\* after which only the call-context operations of Case B / Case C follow.
C17_IsCaseA == Started /\ fits_usize(LengthWord) /\ IsCaseA(EntryCall, low_u64(LengthWord))

C17_IsByteRead(op, address) ==
    /\ IsMemRead(op)
    /\ op.id = entry.call_id
    /\ op.addr = address
    /\ op.value = to_word(ByteAt(entry.memory[entry.call_id], address))

C17_IsContextRead(op, field, value) ==
    IsRead(op, field) /\ op.id = entry.call_id /\ op.value = value

C17_CaseAOrder ==
    C17_IsCaseA =>
        LET o == low_u64(OffsetWord)
            n == low_u64(LengthWord)
            call == EntryCall
        IN  /\ Len(CurOps) >= 4
            /\ IsRead(CurOps[3], "IsSuccess")
            /\ C17_IsByteRead(CurOps[4], o)
            /\ Completed =>
                 /\ Len(CurOps) >= n + 10
                 /\ \A i \in 1..n : C17_IsByteRead(CurOps[4 + i], o + i - 1)
                 /\ CurOps[5].addr = CurOps[4].addr /\ CurOps[5].value = CurOps[4].value
                 /\ NumMemRead(CurOps) = n + 1
                 /\ C17_IsContextRead(CurOps[n + 5], "CallerId", to_word(call.caller_id))
                 /\ C17_IsContextRead(CurOps[n + 6], "CalleeAddress", to_word(call.address))
                 /\ C17_IsContextRead(CurOps[n + 7], "RwCounterEndOfReversion",
                                      to_word(call.rw_counter_end_of_reversion))
                 /\ C17_IsContextRead(CurOps[n + 8], "IsPersistent",
                                      bool_word(call.is_persistent))
                 /\ IsCodeHashWrite(CurOps[n + 9]) /\ CurOps[n + 9].reversible
                 /\ \A i \in 1..Len(CurOps) : CurOps[i].rwc = entry.rwc + i - 1
                 /\ \A i \in (n + 10)..Len(CurOps) : CurOps[i].target = "CallContext"

\* A root creation returning the two bytes 0x60 0xEF from offset 0
C17_Witness ==
    /\ C17_IsCaseA /\ Completed /\ EntryCall.is_root
    /\ low_u64(LengthWord) = 2 /\ low_u64(OffsetWord) = 0
    /\ entry.memory[entry.call_id] = <<96, INVALID_INIT_CODE_FIRST_BYTE>>
    /\ Len(CurOps) = 12
    /\ IsCodeHashWrite(CurOps[11])

\* -------------------------------------------------------------------- C18
\* C18: with a zero length word the offset word is not used.  The invocation
\* that was run from the entry state with the offset word o1 finishes without
\* fault, and running the handler from the same builder state and call with
\* any other offset word o2 (low parts beyond the buffer and words with bits
\* above bit 63 included) finishes without fault too, with the same
\* operations except for the value of the offset stack read, the same copy
\* events, the same memory buffers, rw counter and code store, before and
\* after finalize-return.
C18_EntryB ==
    [rwc |-> entry.rwc, container |-> SubSeq(container, 1, entry.nops),
     copy_events |-> SubSeq(copy_events, 1, entry.ncopies), memory |-> entry.memory,
     code_db |-> entry.code_db, bmi |-> <<>>, fault |-> "none"]

C18_SameButOffsetValue(ops1, ops2) ==
    /\ Len(ops1) = Len(ops2)
    /\ \A i \in 1..Len(ops1) :
         \/ ops1[i] = ops2[i]
         \/ /\ i = entry.nops + 1
            /\ ops1[i].target = "Stack"
            /\ ops1[i].addr = nth_last_filled(entry.stack, 0)
            /\ [ops1[i] EXCEPT !.value = ops2[i].value] = ops2[i]

C18_OffsetUnused ==
    (Started /\ is_zero(LengthWord) /\ pc # "idle") =>
        /\ pc = "return"
        /\ container[entry.nops + 1].value = OffsetWord
        /\ \A o2 \in Words :
             LET other == Body(C18_EntryB, EntryCall, <<LengthWord, o2>>)
                 final == handle_return(B, EntryCall, offset, length)
                 other_final == handle_return(other, EntryCall,
                                              LocalOffset(<<LengthWord, o2>>), 0)
             IN  /\ other.fault = "none"
                 /\ other.container[entry.nops + 1].value = o2
                 /\ C18_SameButOffsetValue(container, other.container)
                 /\ other.copy_events = copy_events
                 /\ other.memory = memory
                 /\ other.rwc = rwc
                 /\ other.bmi = exec_step
                 /\ other.code_db = code_db
                 /\ other_final.code_db = final.code_db
                 /\ other_final.memory = final.memory

\* A nested message call returns no data from an offset whose bits above bit 63
\* are set, into a caller that asked for return data
C18_Witness ==
    /\ Started /\ pc = "return"
    /\ is_zero(LengthWord) /\ OffsetWord = <<1, 1>>
    /\ ~EntryCall.is_root /\ ~EntryCall.is_create
    /\ EntryCall.return_data_length = MaxLen
    /\ Len(CurOps) = 7

\* A creation returns no data from an offset beyond its buffer
C18_WitnessBeyondBuffer ==
    /\ Started /\ pc = "return"
    /\ is_zero(LengthWord) /\ OffsetWord = <<0, MaxLen>>
    /\ EntryCall.is_create /\ EntryCall.is_success
    /\ entry.memory[entry.call_id] = <<>>

\* -------------------------------------------------------------------- C19
\* C19: in an invocation for a non-root, non-creation call, with
\* copy_length = min(call.return_data_length, length) and return_offset =
\* call.return_data_offset: the caller's buffer keeps its length, and every
\* byte of it outside [return_offset, return_offset + copy_length) keeps its
\* value; an invocation with copy_length > 0 finishes only if
\* return_offset + copy_length lies within the caller's buffer, and otherwise
\* stops in a panic with the caller's buffer untouched; the callee's buffer is
\* what the extension of lines 27-32 made of it, the copy does not change it.
C19_IsCaseD == Started /\ ~EntryCall.is_root /\ ~EntryCall.is_create

C19_CallerBefore == entry.memory[EntryCall.caller_id]

C19_CallerAfter == memory[EntryCall.caller_id]

C19_CopyOnlyInRange ==
    C19_IsCaseD =>
        LET return_offset == EntryCall.return_data_offset
            copy_length == C1_CopyLength
        IN  /\ Len(C19_CallerAfter) = Len(C19_CallerBefore)
            /\ \A i \in 1..Len(C19_CallerBefore) :
                 (i <= return_offset \/ i > return_offset + copy_length) =>
                     C19_CallerAfter[i] = C19_CallerBefore[i]
            /\ (Completed /\ copy_length > 0) =>
                 return_offset + copy_length <= Len(C19_CallerBefore)
            /\ (fits_usize(LengthWord) /\ copy_length > 0
                  /\ return_offset + copy_length > Len(C19_CallerBefore)) =>
                 pc = "panic" /\ C19_CallerAfter = C19_CallerBefore
            /\ pc \in {"return", "panic"} =>
                 memory[entry.call_id]
                   = ExtendMemory(C18_EntryB, EntryCall, OffsetWord,
                                  LengthWord).memory[entry.call_id]

\* One byte is copied into a two-byte caller buffer: the byte at
\* return_offset 1 is replaced, the byte before it is kept
C19_Witness ==
    /\ C19_IsCaseD /\ pc = "return"
    /\ EntryCall.return_data_offset = 1 /\ C1_CopyLength = 1
    /\ C19_CallerBefore = <<INVALID_INIT_CODE_FIRST_BYTE, INVALID_INIT_CODE_FIRST_BYTE>>
    /\ C19_CallerAfter = <<INVALID_INIT_CODE_FIRST_BYTE, 96>>

\* The caller's buffer is too short for the return region: the slice of
\* line 121 panics
C19_WitnessShortCaller ==
    /\ C19_IsCaseD /\ pc = "panic" /\ fits_usize(LengthWord)
    /\ C1_CopyLength = 2
    /\ Len(C19_CallerBefore) = 1
    /\ C19_CallerAfter = C19_CallerBefore

\* The first byte of a two-byte caller buffer is replaced, the second is kept
C19_WitnessTail ==
    /\ C19_IsCaseD /\ pc = "return"
    /\ EntryCall.return_data_offset = 0 /\ C1_CopyLength = 1
    /\ C19_CallerBefore = <<INVALID_INIT_CODE_FIRST_BYTE, INVALID_INIT_CODE_FIRST_BYTE>>
    /\ C19_CallerAfter = <<96, INVALID_INIT_CODE_FIRST_BYTE>>
====
